---- MODULE Spec2Model ----
(***************************************************************************)
(* Model of the fanrf RFM22 driver: the typed register layer, the          *)
(* interrupt controller (Rfm22IRQs), the FIFO transmit engine              *)
(* (Rfm22::transmit_large) and the 12-bit packet serializer.               *)
(***************************************************************************)
EXTENDS Integers, Naturals, Sequences, FiniteSets, TLC

(***************************************************************************)
(* Bounds of the model                                                     *)
(***************************************************************************)
\* longest byte stream handed to transmit_large (three bursts need > 108)
MaxLen == 110
\* longest byte stream handed to transmit_large against the FIFO device
MaxFifoLen == 65
\* number of bus transactions the bus log of a call keeps
BusWindow == 3

(***************************************************************************)
(* Program constants                                                       *)
(***************************************************************************)
FIFO_SIZE == 64
\* mutant: the buffer is as large as the FIFO
CapacityNoMargin == FIFO_SIZE

\* Vec::with_capacity(FIFO_SIZE - 10)
Capacity == FIFO_SIZE - 10
\* "The almost empty IRQ happens at 4 by default"
AlmostEmptyThreshold == 4

\* Rfm22RegVal
InterruptStatus1 == 3
InterruptEnable1 == 5
InterruptEnable2 == 6
OperatingFunctionControl1 == 7
OperatingFunctionControl2 == 8
TxDataRate1 == 110
TxDataRate0 == 111
ModulationModeControl1 == 112
FrequencyOffset1 == 115
FrequencyOffset2 == 116
FrequencyBandSelect == 117
CarrierFrequency1 == 118
CarrierFrequency0 == 119
FIFOAccess == 127

\* flags: 1 << bit
IPKSENT == 4
ITXFFAEM == 32
IFFERR == 128
ENPKSENT == 4
ENTXFFAEM == 32
ENFFERR == 128
TXON == 8
FFCLRTX == 1
TXDRTSCALE == 32
HBSEL == 32

\* the address space of a register backend (FakeRegs is [u8; 0x80])
RegAddrs == 0 .. 127

(***************************************************************************)
(* u8 bit operations                                                       *)
(***************************************************************************)
BitAt(x, i) == (x \div (2 ^ i)) % 2

BitAnd(a, b) ==
  LET f[i \in 0 .. 8] ==
        IF i = 8 THEN 0 ELSE (BitAt(a, i) * BitAt(b, i)) * (2 ^ i) + f[i + 1]
  IN f[0]

BitOr(a, b) == a + b - BitAnd(a, b)

\* bitflags remove(): self.bits &= !other.bits
BitClear(a, b) == a - BitAnd(a, b)

\* bitflags contains(): (self & other) == other
Contains(a, b) == BitAnd(a, b) = b

\* bitflags from_bits(): None when a bit outside the declared flags is set
NoneVal == 256
FromBits(all, bits) == IF BitAnd(bits, 255 - all) = 0 THEN bits ELSE NoneVal

\* the union of the flags the rfreg! declaration of a register names:
\* ModulationModeControl1 names bits 0-5, FrequencyOffset2 bits 0-1,
\* FrequencyBandSelect bits 0-6, every other register used here all 8
AllFlags(addr) ==
  CASE addr = ModulationModeControl1 -> 63
    [] addr = FrequencyOffset2 -> 3
    [] addr = FrequencyBandSelect -> 127
    [] OTHER -> 255

\* From<InterruptEnable1> for InterruptStatus1: from_bits_truncate
IntoStatus(en) == BitAnd(en, AllFlags(InterruptStatus1))

Min(a, b) == IF a < b THEN a ELSE b

(***************************************************************************)
(* State                                                                   *)
(***************************************************************************)
VARIABLES
  backend,     \* "fake" (FakeRegs), "chip" (a device raising any interrupt),
               \* "fifo" (a device with a 64-byte draining TX FIFO)
  regs,        \* the backend's registers, RegAddrs -> Byte
  fifoLevel,   \* occupancy of the device TX FIFO ("fifo" backend)
  dummy,       \* Rfm22IRQs.dummy
  pending,     \* Rfm22IRQs.pending
  enabled,     \* Rfm22IRQs.enabled
  op,          \* the call in progress: "none", "transmit", "set_freq", "set_rate",
               \* or an Rfm22IRQs method
  pc,          \* position of the call in progress
  result,      \* outcome of the last call: "none", "ok", "ioerr", "timeout", "panic"
  stream,      \* the bytes of the iterator given to transmit_large
  pos,         \* number of bytes drawn from the iterator so far
  buf,         \* transmit_large's buf
  val,         \* the value a modify/modify_verify/write_validate holds
  target,      \* wait()'s irqs argument
  enArg,       \* set_enable()'s irqs argument
  pnd,         \* wait()'s pnd / the value poll() returned last
  bursts,      \* history: the burst writes of this call, in issue order
  trace,       \* history: the events of this call, in order
  txonWrites,  \* history: number of writes of this call asserting TXON
  touched,     \* history: TRUE once this call has issued a bus transaction
  bus,         \* history: the last BusWindow bus transactions of this call
  pending0,    \* history: pending when the call started
  enabled0,    \* history: enabled when the call started
  pkSentSince, \* history: the device raised PacketSent since the last burst
  waitPolls,   \* history: polls of the wait in progress (capped at 2)
  late,        \* wait(): more than one second has passed since `start`
  lastPoll,    \* history: what the last poll read and returned
  pkt,         \* FanPkt12 being serialized: [addr, cmd]
  count,       \* FanPkt12Bits.count / FanPkt21Bits.count; in send_pkt the
               \* symbols drawn from the pause's take()
  out,         \* what the iterator under study has yielded so far
  ended,       \* next() has returned None
  pkt21,       \* FanPkt21 being serialized: [data0, data1, chksum]
  args21,      \* history: the arguments FanPkt21::new was called with
  inBits,      \* the input bit sequence of FanExpand / BitsToBytes
  ipos,        \* number of input bits the iterator has drawn
  xstate,      \* FanExpandState
  kind,        \* what runs: "expand", "pack", send_pkt of "Dumb" or "Smart", "none"
  reps,        \* send_pkt: clones of the repeat unit taken so far
  freq,        \* set_freq_mhz's freq, in tenths of a MHz
  bandsel,     \* set_freq_mhz's bandsel
  fcarrier,    \* set_freq_mhz's fcarrier after the cast to u64
  rate,        \* set_data_rate_hz's rate, in Hz
  txdr,        \* set_data_rate_hz's txdr after the cast to u64
  rreg,        \* the register R of a call of the typed register layer
  rfn,         \* the closure given to modify / modify_verify
  writes       \* history: the register writes this call issued, in order

devVars == <<backend, regs, fifoLevel>>
irqVars == <<dummy, pending, enabled>>
callVars == <<op, pc, result, stream, pos, buf, val, target, enArg, pnd>>
histVars == <<bursts, trace, txonWrites, touched, bus, pending0, enabled0,
              pkSentSince, waitPolls, late, lastPoll>>
codecVars == <<pkt, count, out, ended>>
dimVars == <<pkt21, args21>>
bitVars == <<inBits, ipos, xstate, kind, reps>>
\* the state of the packet pipeline of main.rs
pureVars == <<codecVars, dimVars, bitVars>>
\* the locals of the configuration calls and of the typed register calls
cfgVars == <<freq, bandsel, fcarrier, rate, txdr, rreg, rfn>>
\* what the steps of the transmit engine and the interrupt controller leave
\* alone
restVars == <<pureVars, cfgVars, writes>>
vars == <<devVars, irqVars, callVars, histVars, restVars>>

\* the bytes of a stream of length n: byte i is i mod 256
Stream(n) == [i \in 1 .. n |-> i % 256]

\* iter.by_ref().take(capacity) from position p
Take(s, p, cap) == SubSeq(s, p + 1, Min(Len(s), p + cap))

Event(e, a) == [ev |-> e, arg |-> a]


(***************************************************************************)
(* Register backend (regrw.rs) and the device behind it                    *)
(***************************************************************************)
\* a spidev transaction may fail; FakeRegs always returns Ok
IoOutcomes == IF backend = "fake" THEN {TRUE} ELSE BOOLEAN

\* the FIFO device latches TxFifoAlmostEmpty while its occupancy is at or
\* below the almost-empty threshold
Latch(status, level) ==
  IF backend = "fifo" /\ level <= AlmostEmptyThreshold
  THEN BitOr(status, ITXFFAEM)
  ELSE status

\* RegRw::read: FakeRegs returns the stored byte; on a device, reading the
\* interrupt status clears it
RegsAfterRead(addr) ==
  IF backend # "fake" /\ addr = InterruptStatus1
  THEN [regs EXCEPT ![addr] = Latch(0, fifoLevel)]
  ELSE regs

\* writing FFCLRTX resets the device's TX FIFO
LevelAfterWrite(addr, v) ==
  IF backend = "fifo" /\ addr = OperatingFunctionControl2 /\ Contains(v, FFCLRTX)
  THEN 0
  ELSE fifoLevel

\* RegRw::write: self.0[reg] = val
RegsAfterWrite(addr, v) ==
  LET r == [regs EXCEPT ![addr] = v]
  IN [r EXCEPT ![InterruptStatus1] = Latch(@, LevelAfterWrite(addr, v))]

\* FakeRegs::burst_write: store each byte, auto-increment below 0x7f
\* (after i bytes the address is reg + i, held at 0x7f)
FakeBurstWrite(r, reg, bytes) ==
  LET f[i \in 0 .. Len(bytes)] ==
        IF i = 0
        THEN r
        ELSE [f[i - 1] EXCEPT ![Min(reg + (i - 1), 127)] = bytes[i]]
  IN f[Len(bytes)]

\* RegRw::burst_write: on a device the bytes enter the TX FIFO
RegsAfterBurst(reg, bytes) ==
  IF backend = "fake" THEN FakeBurstWrite(regs, reg, bytes) ELSE regs

LevelAfterBurst(reg, bytes) ==
  IF backend = "fifo" /\ reg = FIFOAccess
  THEN Min(fifoLevel + Len(bytes), FIFO_SIZE)
  ELSE fifoLevel

\* the bus log keeps the last BusWindow transactions: direction, register
\* address, and whether the transaction succeeded
BusLog(rw, addr, ok) ==
  LET s == Append(bus, [rw |-> rw, reg |-> addr, ok |-> ok])
  IN IF Len(s) > BusWindow THEN Tail(s) ELSE s

ReadFx(addr) ==
  /\ regs' = RegsAfterRead(addr)
  /\ UNCHANGED <<backend, fifoLevel>>
  /\ touched' = TRUE
  /\ bus' = BusLog("read", addr, TRUE)

WriteFx(addr, v) ==
  /\ regs' = RegsAfterWrite(addr, v)
  /\ fifoLevel' = LevelAfterWrite(addr, v)
  /\ UNCHANGED backend
  /\ touched' = TRUE
  /\ bus' = BusLog("write", addr, TRUE)

\* a transaction that failed: the device is left as it was
FailedFx(rw, addr) ==
  /\ UNCHANGED devVars
  /\ touched' = TRUE
  /\ bus' = BusLog(rw, addr, FALSE)

(***************************************************************************)
(* Control flow helpers                                                    *)
(***************************************************************************)
\* the call returns r
Finish(r) == pc' = "done" /\ result' = r

\* continue at p; "done" is a return of Ok
Goto(p) == pc' = p /\ result' = IF p = "done" THEN "ok" ELSE result

NoPoll == [hw |-> 0, en |-> 0, ret |-> 0, stored |-> 0]

\* a call starts: the history of the previous call is dropped
StartCall(o, p) ==
  /\ pc = "idle"
  /\ op' = o
  /\ pc' = p
  /\ bursts' = << >>
  /\ trace' = << >>
  /\ txonWrites' = 0
  /\ touched' = FALSE
  /\ bus' = << >>
  /\ late' = FALSE
  /\ pending0' = pending
  /\ enabled0' = enabled
  /\ pkSentSince' = FALSE
  /\ waitPolls' = 0
  /\ lastPoll' = NoPoll
  /\ writes' = << >>

\* the caller takes the result and the call's locals are dropped; a panic
\* ends the process
Return ==
  /\ pc = "done"
  /\ result # "panic"
  /\ pc' = "idle"
  /\ op' = "none"
  /\ stream' = << >>
  /\ pos' = 0
  /\ buf' = << >>
  /\ val' = 0
  /\ target' = 0
  /\ enArg' = 0
  /\ pnd' = 0
  /\ bursts' = << >>
  /\ trace' = << >>
  /\ txonWrites' = 0
  /\ touched' = FALSE
  /\ bus' = << >>
  /\ late' = FALSE
  /\ pending0' = 0
  /\ enabled0' = 0
  /\ pkSentSince' = FALSE
  /\ waitPolls' = 0
  /\ lastPoll' = NoPoll
  /\ freq' = 0
  /\ bandsel' = 0
  /\ fcarrier' = 0
  /\ rate' = 0
  /\ txdr' = 0
  /\ rreg' = 0
  /\ rfn' = "nothing"
  /\ writes' = << >>
  /\ UNCHANGED <<devVars, irqVars, result, pureVars>>

(***************************************************************************)
(* Typed register model (Rfm22Regs)                                        *)
(***************************************************************************)
\* the closures handed to modify and modify_verify
ModifyFn(f, reg) ==
  CASE f = "insert FFCLRTX" -> BitOr(reg, FFCLRTX)
    [] f = "remove FFCLRTX" -> BitClear(reg, FFCLRTX)
    [] f = "insert TXON" -> BitOr(reg, TXON)
    [] f = "insert TXDRTSCALE" -> BitOr(reg, TXDRTSCALE)
    [] f = "nothing" -> reg

\* Rfm22Regs::read inside modify / modify_verify: let mut val = self.read()?;
\* f(&mut val)
ModifyRead(at, addr, f, next) ==
  /\ pc = at
  /\ \E ok \in IoOutcomes :
       IF ok
       THEN LET r == FromBits(AllFlags(addr), regs[addr]) IN
            /\ ReadFx(addr)
            /\ IF r = NoneVal
               THEN Finish("panic") /\ val' = val
               ELSE Goto(next) /\ val' = ModifyFn(f, r)
       ELSE FailedFx("read", addr) /\ Finish("ioerr") /\ val' = val
  /\ UNCHANGED <<irqVars, op, stream, pos, buf, target, enArg, pnd, restVars>>
  /\ UNCHANGED <<bursts, trace, txonWrites, pending0, enabled0, pkSentSince,
                 waitPolls, late, lastPoll>>

\* Rfm22Regs::write: self.regs.write(R::regval(), val.bits())
RegWrite(at, addr, v, next) ==
  /\ pc = at
  /\ val' = v
  /\ \E ok \in IoOutcomes :
       IF ok
       THEN WriteFx(addr, v) /\ Goto(next)
       ELSE FailedFx("write", addr) /\ Finish("ioerr")
  /\ IF addr = OperatingFunctionControl1 /\ Contains(v, TXON)
     THEN /\ txonWrites' = txonWrites + 1
          /\ trace' = Append(trace, Event("txon", v))
     ELSE UNCHANGED <<txonWrites, trace>>
  /\ writes' = Append(writes, [reg |-> addr, val |-> v])
  /\ UNCHANGED <<irqVars, op, stream, pos, buf, target, enArg, pnd, pureVars,
                 cfgVars>>
  /\ UNCHANGED <<bursts, pending0, enabled0, pkSentSince, waitPolls, late, lastPoll>>

\* mutant: the read-back is made but not compared
VerifyReadUnchecked(at, addr, next) ==
  /\ pc = at
  /\ \E ok \in IoOutcomes :
       IF ok
       THEN ReadFx(addr) /\ Goto(next)
       ELSE FailedFx("read", addr) /\ Finish("panic")
  /\ UNCHANGED <<irqVars, op, stream, pos, buf, val, target, enArg, pnd,
                 restVars>>
  /\ UNCHANGED <<bursts, trace, txonWrites, pending0, enabled0, pkSentSince,
                 waitPolls, late, lastPoll>>

\* the read-back of write_validate: assert_eq!(val, self.read().unwrap())
VerifyRead(at, addr, next) ==
  /\ pc = at
  /\ \E ok \in IoOutcomes :
       IF ok
       THEN /\ ReadFx(addr)
            /\ IF FromBits(AllFlags(addr), regs[addr]) = val
               THEN Goto(next)
               ELSE Finish("panic")
       ELSE FailedFx("read", addr) /\ Finish("panic")
  /\ UNCHANGED <<irqVars, op, stream, pos, buf, val, target, enArg, pnd,
                 restVars>>
  /\ UNCHANGED <<bursts, trace, txonWrites, pending0, enabled0, pkSentSince,
                 waitPolls, late, lastPoll>>

(***************************************************************************)
(* Interrupt controller (Rfm22IRQs)                                        *)
(***************************************************************************)
\* mutant: poll keeps only what the status register shows now
PollPendingForgets(p, en, hw) == BitAnd(hw, IntoStatus(en))

\* mutant: poll forgets to mask with the enabled set
PollPendingUnmasked(p, en, hw) == BitOr(p, hw)

\* poll: self.pending.insert(regs.read()?); self.pending &= self.enabled.into()
PollPending(p, en, hw) == BitAnd(BitOr(p, hw), IntoStatus(en))

\* mutant: the dummy poll synthesizes PacketSent only
PollReturnSentOnly(p) == IF dummy THEN IPKSENT ELSE p

\* mutant: poll ignores the dummy flag
PollReturnPending(p) == p

\* poll: if self.dummy { return Ok(ITXFFAEM | IPKSENT) } else { Ok(self.pending) }
PollReturn(p) == IF dummy THEN BitOr(ITXFFAEM, IPKSENT) ELSE p

\* mutant: handled() leaves the pending set alone
HandledNothing(p, irqs) == p

\* handled: self.pending.remove(irqs)
Handled(p, irqs) == BitClear(p, irqs)

\* mutant: set_enable leaves the pending set alone
MaskToEnabledKeep(p, irqs) == p

\* set_enable: toclear = all(); toclear.remove(irqs.into()); pending.remove(toclear)
MaskToEnabled(p, irqs) ==
  BitClear(p, BitClear(AllFlags(InterruptStatus1), IntoStatus(irqs)))

\* one poll at position `at`; clear marks what the poll returned as handled
\* (markHandled), poll and wait keep the pending set
Poll(at, next, markHandled) ==
  /\ pc = at
  /\ \E ok \in IoOutcomes :
       IF ok
       THEN LET hw == FromBits(AllFlags(InterruptStatus1), regs[InterruptStatus1])
                p == PollPending(pending, enabled, hw)
                ret == PollReturn(p)
            IN /\ ReadFx(InterruptStatus1)
               /\ pending' = IF markHandled THEN Handled(p, ret) ELSE p
               /\ pnd' = ret
               /\ lastPoll' = [hw |-> hw, en |-> enabled, ret |-> ret, stored |-> p]
               /\ Goto(next)
       ELSE /\ FailedFx("read", InterruptStatus1)
            /\ Finish("ioerr")
            /\ UNCHANGED <<pending, pnd, lastPoll>>
  /\ UNCHANGED <<dummy, enabled, op, stream, pos, buf, val, target, enArg,
                 restVars>>
  /\ UNCHANGED <<bursts, txonWrites, pending0, enabled0, pkSentSince>>

\* clear: self.poll(regs).map(|pnd| self.handled(pnd))
ClearPoll ==
  /\ Poll("clear_poll", IF op = "transmit" THEN "burst" ELSE "done", TRUE)
  /\ UNCHANGED <<trace, waitPolls, late>>

\* set_enable, the assignments before the first write
SetEnableLocal ==
  /\ pc = "set_enable"
  /\ enabled' = enArg
  /\ pending' = MaskToEnabled(pending, enArg)
  /\ Goto("en1_write")
  /\ UNCHANGED <<devVars, dummy, op, stream, pos, buf, val, target, enArg, pnd,
                 histVars, restVars>>

\* regs.write_validate(irqs)?
SetEnableWrite1 ==
  RegWrite("en1_write", InterruptEnable1, enArg, "en1_verify")

SetEnableVerify1 ==
  VerifyRead("en1_verify", InterruptEnable1, "en2_write")

\* regs.write_validate(InterruptEnable2::empty())
SetEnableWrite2 ==
  RegWrite("en2_write", InterruptEnable2, 0, "en2_verify")

SetEnableVerify2 ==
  VerifyRead("en2_verify", InterruptEnable2,
             IF op = "transmit" THEN "clear_poll" ELSE "done")

\* wait: let mut pnd = self.poll(regs)?; let start = Instant::now()
WaitFirstPoll ==
  /\ Poll("wait_poll0", "wait_test", FALSE)
  /\ trace' = Append(trace, Event("wait_start", target))
  /\ waitPolls' = 1
  /\ late' = FALSE

\* wait: the loop condition fails, return Ok(irqs)
WaitOk ==
  /\ pc = "wait_test"
  /\ Contains(pnd, target)
  /\ trace' = Append(trace, Event("wait_ok", target))
  /\ Goto(IF op = "transmit" THEN "handled" ELSE "done")
  /\ UNCHANGED <<devVars, irqVars, op, stream, pos, buf, val, target, enArg,
                 pnd, restVars>>
  /\ UNCHANGED <<bursts, txonWrites, touched, bus, pending0, enabled0, pkSentSince,
                 waitPolls, late, lastPoll>>

\* mutant: the timeout is logged but the wait returns as if satisfied
WaitTimeoutIgnored ==
  /\ pc = "wait_test"
  /\ ~Contains(pnd, target)
  /\ late
  /\ trace' = Append(trace, Event("wait_timeout", target))
  /\ Goto(IF op = "transmit" THEN "handled" ELSE "done")
  /\ UNCHANGED <<devVars, irqVars, op, stream, pos, buf, val, target, enArg,
                 pnd, restVars>>
  /\ UNCHANGED <<bursts, txonWrites, touched, bus, pending0, enabled0, pkSentSince,
                 waitPolls, late, lastPoll>>

\* wait: Instant::now().duration_since(start) > 1 s: return Err(TimedOut)
WaitTimeout ==
  /\ pc = "wait_test"
  /\ ~Contains(pnd, target)
  /\ late
  /\ trace' = Append(trace, Event("wait_timeout", target))
  /\ Finish("timeout")
  /\ UNCHANGED <<devVars, irqVars, op, stream, pos, buf, val, target, enArg,
                 pnd, restVars>>
  /\ UNCHANGED <<bursts, txonWrites, touched, bus, pending0, enabled0, pkSentSince,
                 waitPolls, late, lastPoll>>

\* wait: the comparison with one second fails, self._wait_for_change(): a
\* GPIO edge or its 1000 ms timeout, or a 1 ms sleep.  Time passes, and the
\* second since `start` may run out meanwhile.
WaitForChange ==
  /\ pc = "wait_test"
  /\ ~Contains(pnd, target)
  /\ ~late
  /\ late' \in BOOLEAN
  /\ Goto("wait_repoll")
  /\ UNCHANGED <<devVars, irqVars, op, stream, pos, buf, val, target, enArg,
                 pnd, restVars>>
  /\ UNCHANGED <<bursts, trace, txonWrites, touched, bus, pending0, enabled0,
                 pkSentSince, waitPolls, lastPoll>>

\* wait: pnd = self.poll(regs)?
WaitRePoll ==
  /\ Poll("wait_repoll", "wait_test", FALSE)
  /\ waitPolls' = Min(waitPolls + 1, 2)
  /\ late' = late
  /\ UNCHANGED trace

(***************************************************************************)
(* FIFO transmit engine (Rfm22::transmit_large)                            *)
(***************************************************************************)
\* mutant: the zero-length check is missing
ZeroLengthNever(b) == FALSE

\* if buf.len() == 0 { error!("Zero length transmit!"); return Ok(()) }
ZeroLength(b) == Len(b) = 0

\* buf.extend(iter.by_ref().take(capacity)); zero length returns Ok at once
TransmitLarge(n) ==
  /\ LET s == Stream(n)
         first == Take(s, 0, Capacity)
     IN /\ StartCall("transmit", IF ZeroLength(first) THEN "done" ELSE "ffclr_set_read")
        /\ result' = IF ZeroLength(first) THEN "ok" ELSE "none"
        /\ stream' = s
        /\ buf' = first
        /\ pos' = Len(first)
  /\ UNCHANGED <<devVars, irqVars, val, target, enArg, pnd, pureVars, cfgVars>>

\* clear_tx_fifo: modify_verify(|reg| reg.insert(FFCLRTX))
ClearFifoSetRead ==
  ModifyRead("ffclr_set_read", OperatingFunctionControl2, "insert FFCLRTX",
             "ffclr_set_write")

ClearFifoSetWrite ==
  RegWrite("ffclr_set_write", OperatingFunctionControl2, val, "ffclr_set_verify")

ClearFifoSetVerify ==
  VerifyRead("ffclr_set_verify", OperatingFunctionControl2, "ffclr_clr_read")

\* clear_tx_fifo: modify_verify(|reg| reg.remove(FFCLRTX))
ClearFifoClrRead ==
  ModifyRead("ffclr_clr_read", OperatingFunctionControl2, "remove FFCLRTX",
             "ffclr_clr_write")

ClearFifoClrWrite ==
  RegWrite("ffclr_clr_write", OperatingFunctionControl2, val, "ffclr_clr_verify")

ClearFifoClrVerify ==
  VerifyRead("ffclr_clr_verify", OperatingFunctionControl2, "enable")

\* mutant: only PacketSent is enabled
TransmitSetEnableSentOnly ==
  /\ pc = "enable"
  /\ enArg' = ENPKSENT
  /\ Goto("set_enable")
  /\ UNCHANGED <<devVars, irqVars, op, stream, pos, buf, val, target, pnd,
                 histVars, restVars>>

\* self.irq.set_enable(&mut self.regs, ENPKSENT | ENTXFFAEM)
TransmitSetEnable ==
  /\ pc = "enable"
  /\ enArg' = BitOr(ENPKSENT, ENTXFFAEM)
  /\ Goto("set_enable")
  /\ UNCHANGED <<devVars, irqVars, op, stream, pos, buf, val, target, pnd,
                 histVars, restVars>>

\* mutant: transmit() is called after every burst
AfterBurstAlwaysTransmit(first) == "txon_read"

\* where transmit_large continues after a burst: the first burst is followed
\* by transmit() (TXON), a later one by the head of the while loop
AfterBurst(first) == IF first THEN "txon_read" ELSE "loop"

\* write_tx_fifo(&buf): burst_write(FIFOAccess, buf)
WriteTxFifo ==
  /\ pc = "burst"
  /\ bursts' = Append(bursts, [reg |-> FIFOAccess, data |-> buf])
  /\ trace' = Append(trace, Event("burst", Len(buf)))
  /\ pkSentSince' = FALSE
  /\ touched' = TRUE
  /\ \E ok \in IoOutcomes :
       IF ok
       THEN /\ regs' = RegsAfterBurst(FIFOAccess, buf)
            /\ bus' = BusLog("burst", FIFOAccess, TRUE)
            /\ fifoLevel' = LevelAfterBurst(FIFOAccess, buf)
            /\ UNCHANGED backend
            /\ Goto(AfterBurst(bursts = << >>))
       ELSE /\ UNCHANGED devVars
            /\ bus' = BusLog("burst", FIFOAccess, FALSE)
            /\ Finish("ioerr")
  /\ UNCHANGED <<irqVars, op, stream, pos, buf, val, target, enArg, pnd,
                 restVars>>
  /\ UNCHANGED <<txonWrites, pending0, enabled0, waitPolls, late, lastPoll>>

\* transmit: self.regs.modify(|reg: &mut OperatingFunctionControl1| reg.insert(TXON))
TransmitRead ==
  ModifyRead("txon_read", OperatingFunctionControl1, "insert TXON", "txon_write")

TransmitWrite ==
  RegWrite("txon_write", OperatingFunctionControl1, val, "loop")

\* while let Some(_) = iter.peek() { wait(ITXFFAEM) ... } wait(IPKSENT)
WaitTarget(s, p) == IF p < Len(s) THEN ITXFFAEM ELSE IPKSENT

LoopHead ==
  /\ pc = "loop"
  /\ target' = WaitTarget(stream, pos)
  /\ Goto("wait_poll0")
  /\ UNCHANGED <<devVars, irqVars, op, stream, pos, buf, val, enArg, pnd,
                 histVars, restVars>>

\* after wait(ITXFFAEM): handled(ITXFFAEM); buf.clear(); buf.extend(take(capacity))
\* after wait(IPKSENT): handled(IPKSENT); Ok(())
AfterWait ==
  /\ pc = "handled"
  /\ pending' = Handled(pending, target)
  /\ trace' = Append(trace, Event("handled", target))
  /\ IF target = ITXFFAEM
     THEN /\ buf' = Take(stream, pos, Capacity)
          /\ pos' = pos + Len(Take(stream, pos, Capacity))
          /\ Goto("burst")
     ELSE /\ UNCHANGED <<buf, pos>>
          /\ Finish("ok")
  /\ UNCHANGED <<devVars, dummy, enabled, op, stream, val, target, enArg, pnd,
                 restVars>>
  /\ UNCHANGED <<bursts, txonWrites, touched, bus, pending0, enabled0, pkSentSince,
                 waitPolls, late, lastPoll>>

(***************************************************************************)
(* The device                                                              *)
(***************************************************************************)
\* interrupt sources the device can raise in the model
HwSources == {IPKSENT, ITXFFAEM}

\* the device latches an interrupt status bit, whether or not the source is
\* enabled; it reports PacketSent only while its transmitter is on
HwRaise(b) ==
  /\ backend = "chip"
  /\ ~Contains(regs[InterruptStatus1], b)
  /\ b = IPKSENT => Contains(regs[OperatingFunctionControl1], TXON)
  /\ regs' = [regs EXCEPT ![InterruptStatus1] = BitOr(@, b)]
  /\ pkSentSince' = (pkSentSince \/ b = IPKSENT)
  /\ UNCHANGED <<backend, fifoLevel, irqVars, callVars, restVars>>
  /\ UNCHANGED <<bursts, trace, txonWrites, touched, bus, pending0, enabled0,
                 waitPolls, late, lastPoll>>

\* the device transmits one byte of its FIFO; it raises PacketSent when the
\* FIFO runs empty
DeviceDrain ==
  /\ backend = "fifo"
  /\ Contains(regs[OperatingFunctionControl1], TXON)
  /\ fifoLevel > 0
  /\ fifoLevel' = fifoLevel - 1
  /\ regs' = [regs EXCEPT ![InterruptStatus1] =
                Latch(IF fifoLevel = 1 THEN BitOr(@, IPKSENT) ELSE @,
                      fifoLevel - 1)]
  /\ pkSentSince' = (pkSentSince \/ fifoLevel = 1)
  /\ UNCHANGED <<backend, irqVars, callVars, restVars>>
  /\ UNCHANGED <<bursts, trace, txonWrites, touched, bus, pending0, enabled0,
                 waitPolls, late, lastPoll>>

(***************************************************************************)
(* Specification of the transmit engine                                    *)
(***************************************************************************)
NoPkt == [addr |-> 0, cmd |-> 0]
NoPkt21 == [data0 |-> 0, data1 |-> 0, chksum |-> 0]
NoArgs21 == [addr |-> 0, pct |-> 0, fan |-> 0]

InitCommon ==
  /\ fifoLevel = 0
  /\ pending = 0
  /\ enabled = 0
  /\ op = "none"
  /\ pc = "idle"
  /\ result = "none"
  /\ stream = << >>
  /\ pos = 0
  /\ buf = << >>
  /\ val = 0
  /\ target = 0
  /\ enArg = 0
  /\ pnd = 0
  /\ bursts = << >>
  /\ trace = << >>
  /\ txonWrites = 0
  /\ touched = FALSE
  /\ bus = << >>
  /\ late = FALSE
  /\ pending0 = 0
  /\ enabled0 = 0
  /\ pkSentSince = FALSE
  /\ waitPolls = 0
  /\ lastPoll = NoPoll
  /\ pkt = NoPkt
  /\ count = 0
  /\ out = << >>
  /\ ended = FALSE
  /\ pkt21 = NoPkt21
  /\ args21 = NoArgs21
  /\ inBits = << >>
  /\ ipos = 0
  /\ xstate = "Start"
  /\ kind = "none"
  /\ reps = 0
  /\ freq = 0
  /\ bandsel = 0
  /\ fcarrier = 0
  /\ rate = 0
  /\ txdr = 0
  /\ rreg = 0
  /\ rfn = "nothing"
  /\ writes = << >>

\* Rfm22::dummy() or Rfm22::new()
Init ==
  /\ backend \in {"fake", "chip"}
  /\ dummy = (backend = "fake")
  /\ regs = [a \in RegAddrs |-> 0]
  /\ InitCommon

\* stream lengths: those around each multiple of the burst capacity, and the
\* longest
Lengths ==
  {n \in 0 .. MaxLen : n % Capacity \in {0, 1, Capacity - 1}} \cup {MaxLen}

Driver ==
  \/ ClearFifoSetRead \/ ClearFifoSetWrite \/ ClearFifoSetVerify
  \/ ClearFifoClrRead \/ ClearFifoClrWrite \/ ClearFifoClrVerify
  \/ TransmitSetEnable
  \/ SetEnableLocal
  \/ SetEnableWrite1 \/ SetEnableVerify1
  \/ SetEnableWrite2 \/ SetEnableVerify2
  \/ ClearPoll
  \/ WriteTxFifo
  \/ TransmitRead \/ TransmitWrite
  \/ LoopHead
  \/ WaitFirstPoll \/ WaitOk \/ WaitTimeout \/ WaitForChange \/ WaitRePoll
  \/ AfterWait
  \/ Return

Next ==
  \/ \E n \in Lengths : TransmitLarge(n)
  \/ Driver
  \/ \E b \in HwSources : HwRaise(b)

Spec == Init /\ [][Next]_vars

\* the same program under a scheduler that keeps running the driver
SpecLive == Init /\ [][Next]_vars /\ WF_vars(Driver)

(***************************************************************************)
(* Specification of the transmit engine against a device with a FIFO       *)
(***************************************************************************)
\* a device whose TX FIFO is empty: TxFifoAlmostEmpty is latched
InitFifo ==
  /\ backend = "fifo"
  /\ dummy = FALSE
  /\ regs = [a \in RegAddrs |-> IF a = InterruptStatus1 THEN ITXFFAEM ELSE 0]
  /\ InitCommon

NextFifo ==
  \/ \E n \in 0 .. MaxFifoLen : TransmitLarge(n)
  \/ Driver
  \/ DeviceDrain

SpecFifo == InitFifo /\ [][NextFifo]_vars

(***************************************************************************)
(* Specification of the interrupt controller on its own: its methods       *)
(* called in any order with any arguments                                  *)
(***************************************************************************)
\* arguments of set_enable, wait and handled: the sets over three sources
IrqSets == {0, 4, 32, 128, 36, 132, 160, 164}

\* sources the device raises here; the transmitter stays off, so PacketSent
\* is not among them
IrqSources == {ITXFFAEM, IFFERR}

CallLocals == <<stream, pos, buf, val, pnd>>

IrqSetEnable(bits) ==
  /\ StartCall("set_enable", "set_enable")
  /\ enArg' = bits
  /\ result' = "none"
  /\ UNCHANGED <<devVars, irqVars, CallLocals, target, pureVars,
                 cfgVars>>

IrqPoll ==
  /\ StartCall("poll", "poll")
  /\ result' = "none"
  /\ UNCHANGED <<devVars, irqVars, CallLocals, target, enArg, pureVars,
                 cfgVars>>

PollStep ==
  /\ Poll("poll", "done", FALSE)
  /\ UNCHANGED <<trace, waitPolls, late>>

IrqWait(bits) ==
  /\ StartCall("wait", "wait_poll0")
  /\ target' = bits
  /\ result' = "none"
  /\ UNCHANGED <<devVars, irqVars, CallLocals, enArg, pureVars,
                 cfgVars>>

IrqHandled(bits) ==
  /\ StartCall("handled", "done")
  /\ pending' = Handled(pending, bits)
  /\ target' = bits
  /\ result' = "ok"
  /\ UNCHANGED <<devVars, dummy, enabled, CallLocals, enArg, pureVars,
                 cfgVars>>

IrqClear ==
  /\ StartCall("clear", "clear_poll")
  /\ result' = "none"
  /\ UNCHANGED <<devVars, irqVars, CallLocals, target, enArg, pureVars,
                 cfgVars>>

IrqSteps ==
  \/ SetEnableLocal
  \/ SetEnableWrite1 \/ SetEnableVerify1
  \/ SetEnableWrite2 \/ SetEnableVerify2
  \/ PollStep
  \/ ClearPoll
  \/ WaitFirstPoll \/ WaitOk \/ WaitTimeout \/ WaitForChange \/ WaitRePoll
  \/ Return

NextIrq ==
  \/ \E bits \in IrqSets : IrqSetEnable(bits)
  \/ IrqPoll
  \/ \E bits \in IrqSets : IrqWait(bits)
  \/ \E bits \in IrqSets : IrqHandled(bits)
  \/ IrqClear
  \/ IrqSteps
  \/ \E b \in IrqSources : HwRaise(b)

SpecIrq == Init /\ [][NextIrq]_vars

(***************************************************************************)
(* Simple (12-bit) packet serializer (FanPkt12Bits) and the decoder of     *)
(* its test                                                                *)
(***************************************************************************)
Addrs12 == 0 .. 15
Cmds12 == 0 .. 127

\* mutant: the address is shifted out least significant bit first
NextBit12AddrLsbFirst(p, c) ==
  IF c = 0 THEN <<TRUE>>
  ELSE IF c \in 1 .. 4 THEN <<BitAnd(p.addr, 2 ^ (c - 1)) # 0>>
  ELSE IF c \in 5 .. 11 THEN <<BitAnd(p.cmd, 2 ^ (6 - (c - 5))) # 0>>
  ELSE << >>

\* FanPkt12Bits::next, the match on self.count: <<b>> is Some(b), << >> is
\* None
NextBit12(p, c) ==
  IF c = 0 THEN <<TRUE>>
  ELSE IF c \in 1 .. 4 THEN <<BitAnd(p.addr, 2 ^ (3 - (c - 1))) # 0>>
  ELSE IF c \in 5 .. 11 THEN <<BitAnd(p.cmd, 2 ^ (6 - (c - 5))) # 0>>
  ELSE << >>

\* (&FanPkt12).into_iter(): FanPkt12Bits::new
IntoIter12(a, c) ==
  /\ count = 0
  /\ out = << >>
  /\ ~ended
  /\ pkt = NoPkt
  /\ pkt' = [addr |-> a, cmd |-> c]
  /\ UNCHANGED <<count, out, ended>>
  /\ UNCHANGED <<devVars, irqVars, callVars, histVars, dimVars, bitVars,
                 cfgVars, writes>>

\* FanPkt12Bits::next
Next12 ==
  /\ ~ended
  /\ LET b == NextBit12(pkt, count) IN
       IF b = << >>
       THEN /\ ended' = TRUE
            /\ UNCHANGED <<count, out>>
       ELSE /\ out' = Append(out, b[1])
            /\ count' = (count + 1) % 256
            /\ UNCHANGED ended
  /\ UNCHANGED pkt
  /\ UNCHANGED <<devVars, irqVars, callVars, histVars, dimVars, bitVars,
                 cfgVars, writes>>

\* the iterator is dropped
Drop12 ==
  /\ ended
  /\ pkt' = NoPkt
  /\ count' = 0
  /\ out' = << >>
  /\ ended' = FALSE
  /\ UNCHANGED <<devVars, irqVars, callVars, histVars, dimVars, bitVars,
                 cfgVars, writes>>

B2N(b) == IF b THEN 1 ELSE 0

\* fan12_serializer::from_iter: addr -1 where the test's assertions or
\* unwraps would panic
FromIter12(bits) ==
  IF Len(bits) # 12 \/ bits[1] # TRUE
  THEN [addr |-> -1, cmd |-> -1]
  ELSE [addr |-> B2N(bits[2]) * 8 + B2N(bits[3]) * 4 + B2N(bits[4]) * 2
                 + B2N(bits[5]),
        cmd |-> B2N(bits[6]) * 64 + B2N(bits[7]) * 32 + B2N(bits[8]) * 16
                + B2N(bits[9]) * 8 + B2N(bits[10]) * 4 + B2N(bits[11]) * 2
                + B2N(bits[12])]

InitCodec ==
  /\ backend = "fake"
  /\ dummy = TRUE
  /\ regs = [a \in RegAddrs |-> 0]
  /\ InitCommon

NextCodec ==
  \/ \E a \in Addrs12, c \in Cmds12 : IntoIter12(a, c)
  \/ Next12
  \/ Drop12

SpecCodec == InitCodec /\ [][NextCodec]_vars

(***************************************************************************)
(* Dimmer (21-bit) packet: FanPkt21::new, its serializer (FanPkt21Bits)    *)
(* and the decoder of its test                                             *)
(***************************************************************************)
\* brightness percentages main accepts (it passes brightness as f64 / 100.0)
Percents == 0 .. 100
\* FanState21 as u8: Low, Med, High, Off
Fans == 0 .. 3

\* reverse_nibble: (n & 8) >> 3 | (n & 4) >> 1 | (n & 2) << 1 | (n & 1) << 3,
\* for every u8
ReverseNibbleOf ==
  [n \in 0 .. 255 |->
     BitOr(BitOr(BitAnd(n, 8) \div 8, BitAnd(n, 4) \div 2),
           BitOr((BitAnd(n, 2) * 2) % 256, (BitAnd(n, 1) * 8) % 256))]

\* mutant: the nibble is not reversed
ReverseNibbleId(n) == BitAnd(n, 15)

ReverseNibble(n) == ReverseNibbleOf[n]

BRIGHTNESS_MAX == 62
BRIGHTNESS_MIN == 19

\* mutant: zero brightness is scaled like any other
BrightnessNoOff(p) ==
  ((BRIGHTNESS_MAX - BRIGHTNESS_MIN) * p) \div 100 + BRIGHTNESS_MIN

\* FanPkt21::new, "Scale brightness", for brightness = p as f64 / 100.0:
\* 63 when it is 0.0, else ((MAX - MIN) as f64 * brightness) as u8 + MIN.
\* The product 43 * p / 100 is a whole number only for p = 100, where both
\* f64 operations are exact; for every other p it is at least 1/100 away
\* from a whole number, far more than the rounding of two f64 operations, so
\* the cast truncates to the floor of the exact quotient.
Brightness(p) ==
  IF p = 0
  THEN 63
  ELSE ((BRIGHTNESS_MAX - BRIGHTNESS_MIN) * p) \div 100 + BRIGHTNESS_MIN

\* mutant: the constant 3 is left out of the sum
ChksumSumNoBias(d0, d1) ==
  d0 \div 16 + BitAnd(d0, 15) + d1 \div 16 + BitAnd(d1, 15)

\* FanPkt21::new: (data0 >> 4) + (data0 & 0xf) + (data1 >> 4) + (data1 & 0xf) + 3,
\* before any reduction to u8
ChksumSum(d0, d1) ==
  d0 \div 16 + BitAnd(d0, 15) + d1 \div 16 + BitAnd(d1, 15) + 3

\* FanPkt21::new
New21(addr, p, fan) ==
  LET data0 == BitOr(BitOr((7 * 32) % 256, (ReverseNibble(addr) * 2) % 256), 1)
      data1 == BitOr((Brightness(p) * 4) % 256, fan)
  IN [data0 |-> data0,
      data1 |-> data1,
      chksum |-> BitAnd(ChksumSum(data0, data1) % 256, 15)]

\* FanPkt21Bits::next, the match on self.count: <<b>> is Some(b), << >> is
\* None
NextBit21(p, c) ==
  IF c \in 0 .. 7 THEN <<BitAnd(p.data0, 2 ^ (7 - (c - 0))) # 0>>
  ELSE IF c \in 8 .. 15 THEN <<BitAnd(p.data1, 2 ^ (7 - (c - 8))) # 0>>
  ELSE IF c = 16 THEN <<TRUE>>
  ELSE IF c \in 17 .. 20 THEN <<BitAnd(p.chksum, 2 ^ (3 - (c - 17))) # 0>>
  ELSE << >>

\* FanPkt21::new(addr, brightness, fan) and (&FanPkt21).into_iter()
IntoIter21(a, p, f) ==
  /\ count = 0
  /\ out = << >>
  /\ ~ended
  /\ pkt21 = NoPkt21
  /\ pkt21' = New21(a, p, f)
  /\ args21' = [addr |-> a, pct |-> p, fan |-> f]
  /\ UNCHANGED <<pkt, count, out, ended>>
  /\ UNCHANGED <<devVars, irqVars, callVars, histVars, bitVars, cfgVars, writes>>

\* FanPkt21Bits::next
Next21 ==
  /\ pkt21 # NoPkt21
  /\ ~ended
  /\ LET b == NextBit21(pkt21, count) IN
       IF b = << >>
       THEN /\ ended' = TRUE
            /\ UNCHANGED <<count, out>>
       ELSE /\ out' = Append(out, b[1])
            /\ count' = (count + 1) % 256
            /\ UNCHANGED ended
  /\ UNCHANGED <<pkt, pkt21, args21>>
  /\ UNCHANGED <<devVars, irqVars, callVars, histVars, bitVars, cfgVars, writes>>

\* the iterator and the packet are dropped
Drop21 ==
  /\ pkt21 # NoPkt21
  /\ ended
  /\ pkt21' = NoPkt21
  /\ args21' = NoArgs21
  /\ count' = 0
  /\ out' = << >>
  /\ ended' = FALSE
  /\ UNCHANGED pkt
  /\ UNCHANGED <<devVars, irqVars, callVars, histVars, bitVars, cfgVars, writes>>

\* fan21_serializer::from_iter: the address, or -1 where the test's
\* assertions or unwraps would panic
FromIter21(bs) ==
  IF Len(bs) # 21
  THEN -1
  ELSE IF ~(bs[1] /\ bs[2] /\ bs[3] /\ bs[8] /\ bs[17])
  THEN -1
  ELSE B2N(bs[4]) * 1 + B2N(bs[5]) * 2 + B2N(bs[6]) * 4 + B2N(bs[7]) * 8

NextDimmer ==
  \/ /\ pkt21 = NoPkt21
     /\ \E a \in Addrs12, p \in Percents, f \in Fans : IntoIter21(a, p, f)
  \/ Next21
  \/ Drop21

SpecDimmer == InitCodec /\ [][NextDimmer]_vars

(***************************************************************************)
(* The 3-for-1 expander (FanExpand) and the bit packer (BitsToBytes), each *)
(* run over a finite bit sequence                                          *)
(***************************************************************************)
\* longest input of the expander
MaxBits == 4
\* longest input of the packer (nine bits make a full and a partial byte)
MaxPackBits == 9

\* the bit sequences of length at most n
BitSeqs(n) == UNION {[1 .. m -> BOOLEAN] : m \in 0 .. n}

\* mutant: the End state yields a 1
ExpandEndHigh == TRUE

\* FanExpandState::End => Some(false)
ExpandEnd == FALSE

\* FanExpand::next over the input s with i bits drawn, in state x: what it
\* yields (<<b>> is Some(b), << >> is None), the next state, the bits drawn
FanExpandNext(x, s, i) ==
  CASE x = "Start" ->
         IF i < Len(s)
         THEN [item |-> <<s[i + 1]>>, x |-> "Data", i |-> i + 1]
         ELSE [item |-> << >>, x |-> "Start", i |-> i]
    [] x = "Data" -> [item |-> <<TRUE>>, x |-> "End", i |-> i]
    [] x = "End" -> [item |-> <<ExpandEnd>>, x |-> "Start", i |-> i]

\* FanExpand::new(iter)
ExpandNew(s) ==
  /\ kind = "none"
  /\ kind' = "expand"
  /\ inBits' = s
  /\ ipos' = 0
  /\ xstate' = "Start"
  /\ out' = << >>
  /\ ended' = FALSE
  /\ UNCHANGED <<pkt, count, dimVars, reps>>
  /\ UNCHANGED <<devVars, irqVars, callVars, histVars, cfgVars, writes>>

\* one call of FanExpand::next
ExpandNext ==
  /\ kind = "expand"
  /\ ~ended
  /\ LET r == FanExpandNext(xstate, inBits, ipos) IN
       /\ xstate' = r.x
       /\ ipos' = r.i
       /\ IF r.item = << >>
          THEN ended' = TRUE /\ out' = out
          ELSE ended' = FALSE /\ out' = Append(out, r.item[1])
  /\ UNCHANGED <<pkt, count, dimVars, inBits, kind, reps>>
  /\ UNCHANGED <<devVars, irqVars, callVars, histVars, cfgVars, writes>>

\* the iterator is dropped
IterDrop ==
  /\ kind \in {"expand", "pack"}
  /\ ended
  /\ kind' = "none"
  /\ inBits' = << >>
  /\ ipos' = 0
  /\ xstate' = "Start"
  /\ out' = << >>
  /\ ended' = FALSE
  /\ UNCHANGED <<pkt, count, dimVars, reps>>
  /\ UNCHANGED <<devVars, irqVars, callVars, histVars, cfgVars, writes>>

NextExpand ==
  \/ /\ kind = "none"
     /\ \E s \in BitSeqs(MaxBits) : ExpandNew(s)
  \/ ExpandNext
  \/ IterDrop

SpecExpand == InitCodec /\ [][NextExpand]_vars

\* one more call of next() on the iterator in state prev (its state, the
\* bits drawn, what it has yielded)
ExpandStep(prev, s) ==
  LET r == FanExpandNext(prev.x, s, prev.i)
  IN [x |-> r.x, i |-> r.i, o |-> prev.o \o r.item]

\* everything FanExpand yields for the input s: next() is called until it
\* returns None
ExpandAll(s) ==
  LET f[k \in 0 .. 3 * Len(s) + 1] ==
        IF k = 0
        THEN [x |-> "Start", i |-> 0, o |-> << >>]
        ELSE ExpandStep(f[k - 1], s)
  IN f[3 * Len(s) + 1].o

\* mutant: the byte is filled from its least significant bit
PackByteLsbFirst(s, i) ==
  LET f[j \in 0 .. 8] ==
        IF j = 8
        THEN 0
        ELSE (IF i + j + 1 <= Len(s) /\ s[i + j + 1] THEN 2 ^ j ELSE 0)
             + f[j + 1]
  IN f[0]

\* BitsToBytes::next, the byte built from the bits after the first i: the
\* first bit sets 1 << 7, the bits that follow set 1 << idx for idx 6 down
\* to 0, and a bit the exhausted input no longer yields sets nothing
PackByte(s, i) ==
  LET f[j \in 0 .. 8] ==
        IF j = 8
        THEN 0
        ELSE (IF i + j + 1 <= Len(s) /\ s[i + j + 1] THEN 2 ^ (7 - j) ELSE 0)
             + f[j + 1]
  IN f[0]

\* BitsToBytes::next over the input s with i bits drawn: None when no bit is
\* left, else a byte from up to 8 bits
BitsToBytesNext(s, i) ==
  IF i >= Len(s)
  THEN [item |-> << >>, i |-> i]
  ELSE [item |-> <<PackByte(s, i)>>, i |-> Min(i + 8, Len(s))]

\* BitsToBytes(iter.into_iter())
PackNew(s) ==
  /\ kind = "none"
  /\ kind' = "pack"
  /\ inBits' = s
  /\ ipos' = 0
  /\ out' = << >>
  /\ ended' = FALSE
  /\ UNCHANGED <<pkt, count, dimVars, xstate, reps>>
  /\ UNCHANGED <<devVars, irqVars, callVars, histVars, cfgVars, writes>>

\* one call of BitsToBytes::next
PackNext ==
  /\ kind = "pack"
  /\ ~ended
  /\ LET r == BitsToBytesNext(inBits, ipos) IN
       /\ ipos' = r.i
       /\ IF r.item = << >>
          THEN ended' = TRUE /\ out' = out
          ELSE ended' = FALSE /\ out' = Append(out, r.item[1])
  /\ UNCHANGED <<pkt, count, dimVars, inBits, xstate, kind, reps>>
  /\ UNCHANGED <<devVars, irqVars, callVars, histVars, cfgVars, writes>>

NextPack ==
  \/ /\ kind = "none"
     /\ \E s \in BitSeqs(MaxPackBits) : PackNew(s)
  \/ PackNext
  \/ IterDrop

SpecPack == InitCodec /\ [][NextPack]_vars

\* every byte BitsToBytes yields for the input s
PackAll(s) ==
  LET f[k \in 0 .. Len(s)] ==
        LET i == Len(s) - k
            r == BitsToBytesNext(s, i)
        IN IF r.item = << >> THEN << >> ELSE r.item \o f[Len(s) - r.i]
  IN f[Len(s)]

(***************************************************************************)
(* FanPkt::transmit / send_pkt: the repeated symbol stream of one command  *)
(***************************************************************************)
\* FanCmd12 as u8: Light, FanHigh, FanMed, FanLow, FanOff
FanCmd12 == {1, 32, 16, 8, 2}

\* the Simple packets main builds: FanPkt12::new(0x9, cmd)
SendPkts12 == {[addr |-> 9, cmd |-> c] : c \in FanCmd12}

\* brightness percentages of the Dimmer packets sent here
SendPercents == {0, 1, 50, 100}

\* the Dimmer packets main builds: FanPkt21::new(0xe, brightness, fan)
SendPkts21 == {New21(14, p, f) : p \in SendPercents, f \in Fans}

\* every bit (&FanPkt12).into_iter() yields
FrameBits12(p) ==
  LET f[c \in 0 .. 12] ==
        IF NextBit12(p, c) = << >> THEN << >> ELSE NextBit12(p, c) \o f[c + 1]
  IN f[0]

\* every bit (&FanPkt21).into_iter() yields
FrameBits21(p) ==
  LET f[c \in 0 .. 21] ==
        IF NextBit21(p, c) = << >> THEN << >> ELSE NextBit21(p, c) \o f[c + 1]
  IN f[0]

\* mutant: a 10 ms pause
PauseSymbolsShort == 10 * 3

\* repeat(false).take(11 * 3): 11 ms pause at 1/3 ms per symbol
PauseSymbols == 11 * 3

\* FanPkt::transmit: send_pkt(rf, pkt, 20) for Dumb, send_pkt(rf, pkt, 30)
\* for Smart
Repeats(k) == IF k = "Dumb" THEN 20 ELSE 30

\* the state of the iterator `bits` of send_pkt: rep clones of the unit
\* taken from take(count); in the current clone FanExpand is in state x
\* with i bits drawn from its input, and n symbols are drawn from the pause
SymState(rep, x, i, n) == [rep |-> rep, x |-> x, i |-> i, n |-> n]

\* next() of one clone of the unit,
\* FanExpand::new(repeat(false).take(1).chain(iter.into_iter()))
\*   .chain(repeat(false).take(11 * 3)):
\* the expander over the start bit and the frame, and once that returns None
\* (it then returns None for good) the pause
UnitNext(st, frame) ==
  LET r == FanExpandNext(st.x, <<FALSE>> \o frame, st.i) IN
    IF r.item # << >>
    THEN [item |-> r.item, st |-> SymState(st.rep, r.x, r.i, st.n)]
    ELSE IF st.n < PauseSymbols
    THEN [item |-> <<FALSE>>, st |-> SymState(st.rep, r.x, r.i, st.n + 1)]
    ELSE [item |-> << >>, st |-> st]

\* next() of repeat(unit).cycle().take(cnt).flat_map(|i| i): the current
\* clone's next symbol; when the clone is exhausted (or none is taken yet)
\* the first symbol of the next clone, or None after cnt clones
SymNext(st, frame, cnt) ==
  LET r == UnitNext(st, frame) IN
    IF st.rep > 0 /\ r.item # << >>
    THEN r
    ELSE IF st.rep < cnt
    THEN UnitNext(SymState(st.rep + 1, "Start", 0, 0), frame)
    ELSE [item |-> << >>, st |-> st]

\* one more self.0.next() inside BitsToBytes::next: acc holds the iterator
\* state and the symbols drawn by this call; after a None nothing is added
PullSym(acc, frame, cnt) ==
  LET r == SymNext(acc.st, frame, cnt)
  IN [st |-> r.st, syms |-> acc.syms \o r.item]

\* the up to 8 symbols one BitsToBytes::next draws: none if the first
\* self.0.next() returns None, else that symbol and what 7 more calls return
Pull8(st, frame, cnt) ==
  LET f[j \in 0 .. 8] ==
        IF j = 0
        THEN [st |-> st, syms |-> << >>]
        ELSE PullSym(f[j - 1], frame, cnt)
  IN IF f[1].syms = << >> THEN f[1] ELSE f[8]

\* FanPkt::transmit on FanPkt::Dumb(pkt): rf.transmit_bitstream(bits) is
\* entered; inBits holds what iter.into_iter() yields
SendDumb(p) ==
  /\ kind = "none"
  /\ kind' = "Dumb"
  /\ pkt' = p
  /\ inBits' = FrameBits12(p)
  /\ UNCHANGED <<count, out, ended, dimVars, ipos, xstate, reps>>
  /\ UNCHANGED <<devVars, irqVars, callVars, histVars, cfgVars, writes>>

\* FanPkt::transmit on FanPkt::Smart(pkt)
SendSmart(p) ==
  /\ kind = "none"
  /\ kind' = "Smart"
  /\ pkt21' = p
  /\ inBits' = FrameBits21(p)
  /\ UNCHANGED <<pkt, count, out, ended, args21, ipos, xstate, reps>>
  /\ UNCHANGED <<devVars, irqVars, callVars, histVars, cfgVars, writes>>

\* transmit_large draws one byte from BitsToBytes(bits): the byte joins the
\* stream of the one transmit call, or the stream ends
SendByte ==
  /\ kind \in {"Dumb", "Smart"}
  /\ ~ended
  /\ LET r == Pull8(SymState(reps, xstate, ipos, count), inBits, Repeats(kind))
     IN /\ reps' = r.st.rep
        /\ xstate' = r.st.x
        /\ ipos' = r.st.i
        /\ count' = r.st.n
        /\ out' = out \o r.syms
        /\ IF r.syms = << >>
           THEN ended' = TRUE /\ stream' = stream
           ELSE ended' = FALSE /\ stream' = Append(stream, PackByte(r.syms, 0))
  /\ UNCHANGED <<pkt, dimVars, inBits, kind>>
  /\ UNCHANGED <<devVars, irqVars, op, pc, result, pos, buf, val, target,
                 enArg, pnd, histVars, cfgVars, writes>>

\* send_pkt returns
SendReturn ==
  /\ kind \in {"Dumb", "Smart"}
  /\ ended
  /\ kind' = "none"
  /\ pkt' = NoPkt
  /\ pkt21' = NoPkt21
  /\ inBits' = << >>
  /\ ipos' = 0
  /\ xstate' = "Start"
  /\ count' = 0
  /\ reps' = 0
  /\ out' = << >>
  /\ ended' = FALSE
  /\ stream' = << >>
  /\ UNCHANGED args21
  /\ UNCHANGED <<devVars, irqVars, op, pc, result, pos, buf, val, target,
                 enArg, pnd, histVars, cfgVars, writes>>

NextSend ==
  \/ /\ kind = "none"
     /\ \E p \in SendPkts12 : SendDumb(p)
  \/ /\ kind = "none"
     /\ \E p \in SendPkts21 : SendSmart(p)
  \/ SendByte
  \/ SendReturn

SpecSend == InitCodec /\ [][NextSend]_vars

(***************************************************************************)
(* Radio configuration: Rfm22::set_freq_mhz and Rfm22::set_data_rate_hz    *)
(***************************************************************************)
\* arguments of set_freq_mhz, in tenths of a MHz: below the lowest band,
\* the ends and the inside of the low range (303.8 is what main asks for),
\* the high range, and beyond the last band
Freqs == {0, 2399, 2400, 2401, 2499, 3038, 3999, 4799, 4800, 5000, 5599,
          5600, 6000}

\* arguments of set_data_rate_hz, in Hz (3000 is what main asks for)
Rates == {0, 1, 3000, 29999, 30000, 40000, 999999, 1000000}

\* mutant: the band is counted from 0 MHz
BandNoOffset(fi) == fi \div 10

\* (freq as u32 - 240) / 10 for freq as u32 = fi.  Below 240 the u32
\* subtraction wraps to 2^32 - 240 + fi = 10 * 429496705 + 6 + fi (a build
\* with overflow checks panics there instead, which ends the call the same
\* way as the assertion on the band that follows)
Band(fi) ==
  IF fi >= 240
  THEN (fi - 240) \div 10
  ELSE 429496705 + (6 + fi) \div 10

\* FrequencyBandSelect::from_band(band as u8), and |= HBSEL if freq >= 480.0
BandSel(f, band) ==
  BitOr(FromBits(AllFlags(FrequencyBandSelect), band),
        IF f >= 4800 THEN HBSEL ELSE 0)

\* fcarrier = (freq / 20.0 or freq / 10.0 - (band + 24)) * 64000.0 in exact
\* arithmetic, for freq = f / 10: a whole number
CarrierExact(f, band) ==
  IF Contains(BandSel(f, band), HBSEL)
  THEN f * 320 - (band + 24) * 64000
  ELSE f * 640 - (band + 24) * 64000

\* the arguments of Freqs for which the three f64 operations round to just
\* below the exact whole number (240.1 gives 639.9999999998727, 399.9 and
\* 479.9 give 63359.99999999967); for the others of the low range they give
\* the exact number or just above it (303.8 gives 24320.000000000164)
CarrierBelow == {2401, 3999, 4799}

\* the whole part of the f64 fcarrier
CarrierTrunc(f, band) ==
  IF f \in CarrierBelow
  THEN CarrierExact(f, band) - 1
  ELSE CarrierExact(f, band)

\* what a cast of a negative f64 to u64 that wraps gives, 2^64 - |c|: a
\* number above 0xffff, which is all the code observes of it
U64Wrapped == 2147483647

\* fcarrier as u64: the whole part; a negative value saturates to 0 (or,
\* built by a compiler older than the saturating cast, wraps)
F64AsU64(c) == IF c >= 0 THEN {c} ELSE {0, U64Wrapped}

\* set_freq_mhz up to its first register access: both assertions
SetFreqMhz(f) ==
  /\ LET band == Band(f \div 10) IN
       IF band > 31
       THEN /\ StartCall("set_freq", "done")
            /\ result' = "panic"
            /\ bandsel' = 0
            /\ fcarrier' = 0
       ELSE /\ bandsel' = BandSel(f, band)
            /\ \E c \in F64AsU64(CarrierTrunc(f, band)) :
                 /\ fcarrier' = c
                 /\ IF c > 65535
                    THEN StartCall("set_freq", "done") /\ result' = "panic"
                    ELSE StartCall("set_freq", "fb_write") /\ result' = "none"
  /\ freq' = f
  /\ UNCHANGED <<devVars, irqVars, stream, pos, buf, val, target, enArg, pnd,
                 pureVars, rate, txdr, rreg, rfn>>

\* self.regs.write_validate(bandsel)?
SetFreqBandWrite ==
  RegWrite("fb_write", FrequencyBandSelect, bandsel, "fb_verify")

SetFreqBandVerify ==
  VerifyRead("fb_verify", FrequencyBandSelect, "fo1_write")

\* let foffset = 0
Foffset == 0

\* write_validate(FrequencyOffset1::from_frequency_offset(foffset))?
SetFreqOffset1Write ==
  RegWrite("fo1_write", FrequencyOffset1, Foffset % 256, "fo1_verify")

SetFreqOffset1Verify ==
  VerifyRead("fo1_verify", FrequencyOffset1, "fo2_write")

\* write_validate(FrequencyOffset2::from_frequency_offset(foffset))?
SetFreqOffset2Write ==
  RegWrite("fo2_write", FrequencyOffset2, (Foffset \div 256) % 256,
           "fo2_verify")

SetFreqOffset2Verify ==
  VerifyRead("fo2_verify", FrequencyOffset2, "fc1_write")

\* write_validate(CarrierFrequency1::from_carrier(fcarrier as u16))?
SetFreqCarrier1Write ==
  RegWrite("fc1_write", CarrierFrequency1, (fcarrier % 65536) \div 256,
           "fc1_verify")

SetFreqCarrier1Verify ==
  VerifyRead("fc1_verify", CarrierFrequency1, "fc0_write")

\* write_validate(CarrierFrequency0::from_carrier(fcarrier as u16))
SetFreqCarrier0Write ==
  RegWrite("fc0_write", CarrierFrequency0, (fcarrier % 65536) % 256,
           "fc0_verify")

SetFreqCarrier0Verify ==
  VerifyRead("fc0_verify", CarrierFrequency0, "done")

SetFreqSteps ==
  \/ SetFreqBandWrite \/ SetFreqBandVerify
  \/ SetFreqOffset1Write \/ SetFreqOffset1Verify
  \/ SetFreqOffset2Write \/ SetFreqOffset2Verify
  \/ SetFreqCarrier1Write \/ SetFreqCarrier1Verify
  \/ SetFreqCarrier0Write \/ SetFreqCarrier0Verify
  \/ Return

NextFreq ==
  \/ \E f \in Freqs : SetFreqMhz(f)
  \/ SetFreqSteps

\* set_freq_mhz called any number of times on a fake or a real backend
SpecFreq == Init /\ [][NextFreq]_vars

\* let scale = rate < 30000.0
Scale(r) == r < 30000

\* let exp = if scale { 16 + 5 } else { 16 }
TxdrExp(r) == IF Scale(r) THEN 16 + 5 ELSE 16

\* (rate * (1 << exp) as f64 / 1000000.0) as u64 for a whole rate r >= 0.
\* The product is exact in f64; the quotient is a whole number or at least
\* 1/15625 away from one, far more than the rounding of the division, so
\* the cast gives the floor of the exact quotient.  2^6 is cancelled from
\* 2^exp and 10^6 = 2^6 * 15625.
Txdr(r) == (r * 2 ^ (TxdrExp(r) - 6)) \div 15625

\* set_data_rate_hz is entered
SetDataRateHz(r) ==
  /\ StartCall("set_rate", "mc1_read")
  /\ result' = "none"
  /\ rate' = r
  /\ UNCHANGED <<devVars, irqVars, stream, pos, buf, val, target, enArg, pnd,
                 pureVars, freq, bandsel, fcarrier, txdr, rreg, rfn>>

\* modify_verify(|mc1: &mut ModulationModeControl1| if scale { *mc1 |= TXDRTSCALE })?
SetRateModeRead ==
  ModifyRead("mc1_read", ModulationModeControl1,
             IF Scale(rate) THEN "insert TXDRTSCALE" ELSE "nothing",
             "mc1_write")

SetRateModeWrite ==
  RegWrite("mc1_write", ModulationModeControl1, val, "mc1_verify")

SetRateModeVerify ==
  VerifyRead("mc1_verify", ModulationModeControl1, "txdr_check")

\* let txdr = ...; assert!(txdr <= 0xffff)
SetRateCheck ==
  /\ pc = "txdr_check"
  /\ txdr' = Txdr(rate)
  /\ IF Txdr(rate) > 65535 THEN Finish("panic") ELSE Goto("dr1_write")
  /\ UNCHANGED <<devVars, irqVars, op, stream, pos, buf, val, target, enArg,
                 pnd, histVars, pureVars, freq, bandsel, fcarrier, rate,
                 rreg, rfn,
                 writes>>

\* write_validate(TxDataRate1::from_txdr(txdr as u16))?
SetRateHighWrite ==
  RegWrite("dr1_write", TxDataRate1, (txdr % 65536) \div 256, "dr1_verify")

SetRateHighVerify ==
  VerifyRead("dr1_verify", TxDataRate1, "dr0_write")

\* write_validate(TxDataRate0::from_txdr(txdr as u16))
SetRateLowWrite ==
  RegWrite("dr0_write", TxDataRate0, (txdr % 65536) % 256, "dr0_verify")

SetRateLowVerify ==
  VerifyRead("dr0_verify", TxDataRate0, "done")

SetRateSteps ==
  \/ SetRateModeRead \/ SetRateModeWrite \/ SetRateModeVerify
  \/ SetRateCheck
  \/ SetRateHighWrite \/ SetRateHighVerify
  \/ SetRateLowWrite \/ SetRateLowVerify
  \/ Return

NextRate ==
  \/ \E r \in Rates : SetDataRateHz(r)
  \/ SetRateSteps

\* set_data_rate_hz called any number of times on a fake or a real backend
SpecRate == Init /\ [][NextRate]_vars

(***************************************************************************)
(* The typed register layer on its own: read, write, modify,               *)
(* modify_verify and write_validate of Rfm22Regs called in any order, on   *)
(* FakeRegs or on a device                                                 *)
(***************************************************************************)
\* the register types the calls are made with: the ones the driver modifies
RegsUnderTest ==
  {OperatingFunctionControl1, OperatingFunctionControl2, ModulationModeControl1}

\* the closures the driver hands to modify / modify_verify for a register
FnsOf(addr) ==
  CASE addr = OperatingFunctionControl1 -> {"insert TXON"}
    [] addr = OperatingFunctionControl2 -> {"insert FFCLRTX", "remove FFCLRTX"}
    [] addr = ModulationModeControl1 -> {"insert TXDRTSCALE", "nothing"}

\* values of type R handed to write / write_validate: a value of a bitflags
\* type holds declared flags only
TypedVals(addr) ==
  {v \in {0, 1, 32, 255} : FromBits(AllFlags(addr), v) # NoneVal}

\* bytes a register of a device may hold whatever was written to it last: a
\* reset default, a bit the device clears or sets itself, reserved bits, a
\* module that does not answer (0x00, 0xff)
DeviceBytes == {0, 1, 64, 255}

\* the device changes a register on its own
HwChange(addr, v) ==
  /\ backend = "chip"
  /\ regs[addr] # v
  /\ regs' = [regs EXCEPT ![addr] = v]
  /\ UNCHANGED <<backend, fifoLevel, irqVars, callVars, histVars, restVars>>

\* a call of the typed register layer is entered
RegsCall(o, p, addr, f, v) ==
  /\ StartCall(o, p)
  /\ result' = "none"
  /\ rreg' = addr
  /\ rfn' = f
  /\ val' = v
  /\ UNCHANGED <<devVars, irqVars, stream, pos, buf, target, enArg, pnd,
                 pureVars, freq, bandsel, fcarrier, rate, txdr>>

\* read: self.regs.read(R::regval()).map(|val| R::from_bits(val).unwrap())
RegsRead(addr) == RegsCall("read", "r_read", addr, "nothing", 0)

RegsReadStep == ModifyRead("r_read", rreg, "nothing", "done")

\* write: self.regs.write(R::regval(), val.bits())
RegsWrite(addr, v) == RegsCall("write", "w_write", addr, "nothing", v)

RegsWriteStep == RegWrite("w_write", rreg, val, "done")

\* modify: let mut val = self.read()?; f(&mut val); self.write(val)
RegsModify(addr, f) == RegsCall("modify", "m_read", addr, f, 0)

RegsModifyRead == ModifyRead("m_read", rreg, rfn, "m_write")

RegsModifyWrite == RegWrite("m_write", rreg, val, "done")

\* modify_verify: let mut val = self.read()?; f(&mut val);
\* self.write_validate(val)
RegsModifyVerify(addr, f) == RegsCall("modify_verify", "mv_read", addr, f, 0)

RegsModifyVerifyRead == ModifyRead("mv_read", rreg, rfn, "wv_write")

\* write_validate: self.write(val)?; assert_eq!(val, self.read().unwrap());
\* Ok(())
RegsWriteValidate(addr, v) ==
  RegsCall("write_validate", "wv_write", addr, "nothing", v)

RegsValidateWrite == RegWrite("wv_write", rreg, val, "wv_verify")

RegsValidateRead == VerifyRead("wv_verify", rreg, "done")

RegsSteps ==
  \/ RegsReadStep
  \/ RegsWriteStep
  \/ RegsModifyRead \/ RegsModifyWrite
  \/ RegsModifyVerifyRead
  \/ RegsValidateWrite \/ RegsValidateRead
  \/ Return

NextRegs ==
  \/ \E a \in RegsUnderTest : RegsRead(a)
  \/ \E a \in RegsUnderTest : \E v \in TypedVals(a) : RegsWrite(a, v)
  \/ \E a \in RegsUnderTest : \E f \in FnsOf(a) : RegsModify(a, f)
  \/ \E a \in RegsUnderTest : \E f \in FnsOf(a) : RegsModifyVerify(a, f)
  \/ \E a \in RegsUnderTest : \E v \in TypedVals(a) : RegsWriteValidate(a, v)
  \/ RegsSteps
  \/ \E a \in RegsUnderTest : \E v \in DeviceBytes : HwChange(a, v)

SpecRegs == Init /\ [][NextRegs]_vars

(***************************************************************************)
(* Properties                                                              *)
(***************************************************************************)
RECURSIVE Payload(_)
\* the payloads of a sequence of bursts, concatenated in issue order
Payload(bs) == IF bs = << >> THEN << >> ELSE Head(bs).data \o Payload(Tail(bs))

CeilDiv(a, b) == (a + b - 1) \div b

Succeeded == op = "transmit" /\ pc = "done" /\ result = "ok"

\* number of bytes the bursts logged before position i of the trace carry
RECURSIVE BurstBytesBefore(_)
BurstBytesBefore(i) ==
  IF i <= 1 THEN 0
  ELSE BurstBytesBefore(i - 1)
       + (IF trace[i - 1].ev = "burst" THEN trace[i - 1].arg ELSE 0)

\* C1: every burst of a transmit goes to the FIFO register 0x7F and carries
\* 1 to 54 bytes; the payloads concatenated in issue order are a prefix of
\* the input stream at any time, and when transmit returns success for an
\* n-byte stream (n >= 1) there are exactly ceil(n/54) bursts whose
\* payloads concatenated are the whole stream (so more than one burst when
\* n > 54).
C1_Chunking ==
  op = "transmit" =>
    /\ \A i \in 1 .. Len(bursts) :
         /\ bursts[i].reg = 127
         /\ Len(bursts[i].data) >= 1
         /\ Len(bursts[i].data) <= 54
    /\ Len(Payload(bursts)) <= Len(stream)
    /\ Payload(bursts) = SubSeq(stream, 1, Len(Payload(bursts)))
    /\ (Succeeded /\ Len(stream) >= 1) =>
         /\ Len(bursts) = CeilDiv(Len(stream), 54)
         /\ Payload(bursts) = stream
         /\ (Len(stream) > 54 => Len(bursts) > 1)

\* a successful transmit of more than 108 bytes on a device: three bursts
C1_Witness ==
  /\ Succeeded
  /\ backend = "chip"
  /\ Len(stream) > 108
  /\ Len(bursts) = 3

\* C2: within one transmit call TXON is written at most once, never before
\* the first burst; the write is the event right after the first burst, so
\* it precedes every wait and every later burst, and a call that returns
\* success for a non-empty stream has written it exactly once.
C2_TxOnOnce ==
  op = "transmit" =>
    /\ txonWrites <= 1
    /\ \A i \in 1 .. Len(trace) :
         trace[i].ev = "txon" => (i = 2 /\ trace[1].ev = "burst")
    /\ Len(trace) >= 2 => (trace[2].ev = "txon" /\ txonWrites = 1)
    /\ Len(bursts) >= 2 => txonWrites = 1
    /\ (Succeeded /\ Len(stream) >= 1) => txonWrites = 1

\* a successful transmit of several bursts with its single TXON write
C2_Witness ==
  /\ Succeeded
  /\ Len(bursts) >= 2
  /\ txonWrites = 1

\* C3: every burst after the first directly follows, in this order, a
\* wait(TxFifoAlmostEmpty) started after the previous burst (or the TXON
\* write), its successful return, and handled(TxFifoAlmostEmpty): when the
\* burst is written the wait's last poll contained the bit and the pending
\* set no longer does.  The wait(PacketSent) starts only when every byte of
\* the stream has been drawn and burst-written.
C3_Ordering ==
  op = "transmit" =>
    /\ \A i \in 2 .. Len(trace) :
         trace[i].ev = "burst" =>
           /\ i >= 6
           /\ trace[i - 1] = Event("handled", 32)
           /\ trace[i - 2] = Event("wait_ok", 32)
           /\ trace[i - 3] = Event("wait_start", 32)
           /\ trace[i - 4].ev \in {"burst", "txon"}
    /\ (pc = "burst" /\ bursts # << >>) =>
         /\ BitAnd(pnd, 32) = 32
         /\ BitAnd(pending, 32) = 0
    /\ \A i \in 1 .. Len(trace) :
         trace[i] = Event("wait_start", 4) =>
           /\ i >= 3
           /\ trace[i - 1].ev \in {"burst", "txon"}
           /\ BurstBytesBefore(i) = Len(stream)
           /\ pos = Len(stream)

\* the third burst is about to be written after a wait that had to re-poll
C3_Witness ==
  /\ op = "transmit"
  /\ pc = "burst"
  /\ Len(bursts) = 2
  /\ waitPolls = 2

\* C4: transmit returns success on a device only if the device raised
\* PacketSent after the final burst was written.
C4_SentAfterFinalBurst ==
  (Succeeded /\ backend = "chip" /\ Len(stream) >= 1) => pkSentSince

\* C5: the occupancy of the 64-byte device FIFO never reaches 64.
C5_FifoNeverFull ==
  backend = "fifo" => fifoLevel < 64

\* C6: transmit of a stream that yields no byte returns success having
\* issued no bus transaction (no read, write or burst), with the pending and
\* enabled sets as they were when it was called.
C6_ZeroLengthNoOp ==
  (op = "transmit" /\ pc = "done" /\ Len(stream) = 0) =>
    /\ result = "ok"
    /\ ~touched
    /\ bursts = << >>
    /\ txonWrites = 0
    /\ trace = << >>
    /\ pending = pending0
    /\ enabled = enabled0

\* a zero-length transmit called with interrupts enabled and one pending
C6_Witness ==
  /\ op = "transmit"
  /\ pc = "done"
  /\ Len(stream) = 0
  /\ enabled0 # 0
  /\ pending0 # 0

\* C7: once a wait of a transmit has timed out the call has returned the
\* timeout error: the timeout is the last event of the call, no byte was
\* drawn from the stream that was not burst-written before it, and the
\* result is not success.
C7_TimeoutAborts ==
  (op = "transmit" /\ \E i \in 1 .. Len(trace) : trace[i].ev = "wait_timeout") =>
    /\ pc = "done"
    /\ result = "timeout"
    /\ trace[Len(trace)].ev = "wait_timeout"
    /\ pos = Len(Payload(bursts))

\* a transmit aborted by a timeout of the wait between two bursts
C7_Witness ==
  /\ op = "transmit"
  /\ pc = "done"
  /\ result = "timeout"
  /\ trace # << >>
  /\ trace[Len(trace)] = Event("wait_timeout", 32)
  /\ pos < Len(stream)

\* C8: the pending set is always a subset of the enabled set, and what a
\* poll returns contains every enabled source the status register reported
\* and no source it reported that is not enabled.
C8_PendingWithinEnabled ==
  /\ BitAnd(pending, 255 - enabled) = 0
  /\ BitAnd(BitAnd(lastPoll.hw, 255 - lastPoll.en), lastPoll.ret) = 0
  /\ BitAnd(BitAnd(lastPoll.hw, lastPoll.en), lastPoll.ret)
       = BitAnd(lastPoll.hw, lastPoll.en)

\* a poll with only TxFifoAlmostEmpty enabled that read it and FifoError
C8_Witness ==
  /\ lastPoll.en = 32
  /\ lastPoll.hw = 160
  /\ lastPoll.ret = 32
  /\ pending = 32

\* C9: with the dummy driver no bus transaction fails, every wait is
\* satisfied by its first poll and never times out, and a transmit of a
\* non-empty stream eventually returns success with ceil(n/54) bursts.
C9_DummyTerminates ==
  /\ [](dummy /\ op = "transmit" =>
          /\ result \in {"none", "ok"}
          /\ waitPolls <= 1
          /\ pc # "wait_repoll"
          /\ pc = "wait_test" => Contains(pnd, target))
  /\ [](dummy /\ op = "transmit" /\ pc # "done" =>
          <>(Succeeded /\ Len(bursts) = CeilDiv(Len(stream), 54)))

\* the dummy driver has sent a stream of three bursts
C9_Witness ==
  /\ dummy
  /\ Succeeded
  /\ Len(bursts) = 3

\* C10: the serializer of a Simple packet ends after exactly 12 bits: a 1,
\* the 4 address bits MSB-first, the 7 action bits MSB-first; decoding them
\* gives the packet back.
C10_Simple12RoundTrip ==
  /\ Len(out) <= 12
  /\ ended =>
       /\ Len(out) = 12
       /\ out[1] = TRUE
       /\ \A i \in 1 .. 4 : out[1 + i] = (BitAt(pkt.addr, 4 - i) = 1)
       /\ \A i \in 1 .. 7 : out[5 + i] = (BitAt(pkt.cmd, 7 - i) = 1)
       /\ FromIter12(out) = pkt

\* the serializer of address 1, action FanHigh has ended
C10_Witness ==
  /\ ended
  /\ pkt = [addr |-> 1, cmd |-> 32]
  /\ Len(out) = 12

\* C11: the serializer of a Dimmer packet ends after exactly 21 bits: 1,1,1,
\* the 4 address bits least significant first, 1, data1 MSB-first, 1, the
\* checksum MSB-first; the test's decoder reads the address back.  The
\* 4-bit reversal is an involution with rev4(1)=8, rev4(2)=4, rev4(4)=2,
\* rev4(8)=1, rev4(0xE)=7.
C11_Dimmer21Frame ==
  /\ Len(out) <= 21
  /\ (pkt21 # NoPkt21 /\ ended) =>
       /\ Len(out) = 21
       /\ out[1] /\ out[2] /\ out[3]
       /\ \A i \in 0 .. 3 : out[4 + i] = (BitAt(args21.addr, i) = 1)
       /\ out[8]
       /\ \A i \in 0 .. 7 : out[9 + i] = (BitAt(pkt21.data1, 7 - i) = 1)
       /\ out[17]
       /\ \A i \in 0 .. 3 : out[18 + i] = (BitAt(pkt21.chksum, 3 - i) = 1)
       /\ FromIter21(out) = args21.addr
  /\ \A n \in 0 .. 15 : ReverseNibble(ReverseNibble(n)) = n
  /\ ReverseNibble(1) = 8
  /\ ReverseNibble(2) = 4
  /\ ReverseNibble(4) = 2
  /\ ReverseNibble(8) = 1
  /\ ReverseNibble(14) = 7

\* the serializer of the packet main builds (address 0xE) at half
\* brightness, fan High, has ended
C11_Witness ==
  /\ ended
  /\ args21 = [addr |-> 14, pct |-> 50, fan |-> 2]
  /\ Len(out) = 21

\* C12: the stored checksum of a constructed Dimmer packet is the low nibble
\* of the sum of the four nibbles of data0 and data1 plus 3; that sum fits
\* in 8 bits and the checksum lies in 0..15.  For data0 = 0xE1, data1 = 0x03
\* the sum is 21 and its low nibble 5.
C12_Checksum ==
  /\ pkt21 # NoPkt21 =>
       LET d0 == pkt21.data0
           d1 == pkt21.data1
           sum == (d0 \div 16) + (d0 % 16) + (d1 \div 16) + (d1 % 16) + 3
       IN /\ d0 \in 0 .. 255
          /\ d1 \in 0 .. 255
          /\ sum <= 255
          /\ ChksumSum(d0, d1) = sum
          /\ pkt21.chksum = (sum % 16)
          /\ pkt21.chksum \in 0 .. 15
  /\ ChksumSum(225, 3) % 16 = 5

\* a packet whose nibble sum exceeds 15, so that the mask matters:
\* address 0, brightness off, fan Off gives data0 = 0xE1, data1 = 0xFF
C12_Witness ==
  /\ pkt21 = [data0 |-> 225, data1 |-> 255, chksum |-> 0]
  /\ args21 = [addr |-> 0, pct |-> 0, fan |-> 3]

\* C13: the brightness code of percentage p is 63 for p = 0 and otherwise
\* 19 + floor(43 p / 100), within 19..62 (62 at p = 100); data1 is
\* code * 4 + fan-state code, fits in 8 bits and its low 2 bits are the
\* fan-state code (Off=3, Low=0, Med=1, High=2).
C13_BrightnessCode ==
  pkt21 # NoPkt21 =>
    LET p == args21.pct
        code == pkt21.data1 \div 4
    IN /\ (p = 0 => code = 63)
       /\ (p # 0 => code = 19 + (43 * p) \div 100 /\ code >= 19 /\ code <= 62)
       /\ (p = 100 => code = 62)
       /\ Brightness(p) * 4 + args21.fan <= 255
       /\ pkt21.data1 = Brightness(p) * 4 + args21.fan
       /\ pkt21.data1 % 4 = args21.fan
       /\ args21.fan \in 0 .. 3

\* full brightness with the fan on High: code 62, data1 = 0xFA
C13_Witness ==
  /\ args21.pct = 100
  /\ args21.fan = 2
  /\ pkt21.data1 = 250

\* C14: for an input of n bits the expander yields, in order, the symbols
\* (bit i, 1, 0) for i = 0 .. n-1 and ends after exactly 3n symbols;
\* [true,false] gives [true,true,false,false,true,false] and the empty
\* input gives nothing.
C14_Expand3 ==
  /\ kind = "expand" =>
       /\ Len(out) <= 3 * Len(inBits)
       /\ \A k \in 0 .. Len(out) - 1 :
            out[k + 1] = (CASE k % 3 = 0 -> inBits[(k \div 3) + 1]
                            [] k % 3 = 1 -> TRUE
                            [] k % 3 = 2 -> FALSE)
       /\ ended => Len(out) = 3 * Len(inBits)
  /\ ExpandAll(<<TRUE, FALSE>>) = <<TRUE, TRUE, FALSE, FALSE, TRUE, FALSE>>
  /\ ExpandAll(<< >>) = << >>

\* the expander has ended on a four-bit input
C14_Witness ==
  /\ kind = "expand"
  /\ ended
  /\ inBits = <<TRUE, FALSE, FALSE, TRUE>>
  /\ Len(out) = 12

\* C15: for an input of n bits the packer yields ceil(n/8) bytes and ends;
\* input bit 8k+j is bit 7-j of byte k and the bits of the last byte past
\* the input are 0; no byte is yielded for the empty input, and the nine
\* bits 1,0,0,0,0,0,0,0,1 give 0x80, 0x80.
C15_BitsToBytes ==
  /\ kind = "pack" =>
       /\ Len(out) <= CeilDiv(Len(inBits), 8)
       /\ Len(out) = CeilDiv(ipos, 8)
       /\ \A k \in 0 .. Len(out) - 1 :
            /\ out[k + 1] \in 0 .. 255
            /\ \A j \in 0 .. 7 :
                 BitAt(out[k + 1], 7 - j)
                   = (IF 8 * k + j < Len(inBits)
                      THEN B2N(inBits[8 * k + j + 1])
                      ELSE 0)
       /\ ended => (Len(out) = CeilDiv(Len(inBits), 8) /\ ipos = Len(inBits))
  /\ PackAll(<<TRUE, FALSE, FALSE, FALSE, FALSE, FALSE, FALSE, FALSE, TRUE>>)
       = <<128, 128>>
  /\ PackAll(<< >>) = << >>

\* the packer has ended on nine bits whose last is 1: a partial second byte
C15_Witness ==
  /\ kind = "pack"
  /\ ended
  /\ Len(inBits) = 9
  /\ inBits[9]
  /\ inBits[2]
  /\ out = <<192, 128>>

\* symbol j of the repeat unit of the frame being sent: (b, 1, 0) for the
\* start bit 0 and then each frame bit b, then 33 symbols 0
C16_UnitSymbol(j) ==
  IF j >= 3 * (1 + Len(inBits)) THEN FALSE
  ELSE IF j < 3 THEN j = 1
  ELSE CASE j % 3 = 0 -> inBits[j \div 3]
         [] j % 3 = 1 -> TRUE
         [] j % 3 = 2 -> FALSE

\* C16: the symbol stream of one command is the repeat unit back-to-back,
\* 20 times for a Simple and 30 times for a Dimmer command; the unit is
\* (b, 1, 0) for the start bit 0 and each frame bit b, then 33 symbols 0:
\* 72 symbols (1440 in all) for Simple, 99 symbols (2970 in all) for Dimmer,
\* handed to transmit as one byte stream.
C16_Repetition ==
  kind \in {"Dumb", "Smart"} =>
    /\ inBits = (IF kind = "Dumb" THEN FrameBits12(pkt) ELSE FrameBits21(pkt21))
    /\ Len(inBits) = (IF kind = "Dumb" THEN 12 ELSE 21)
    /\ Len(out) <= (IF kind = "Dumb" THEN 1440 ELSE 2970)
    /\ reps = CeilDiv(Len(out), IF kind = "Dumb" THEN 72 ELSE 99)
    /\ \A k \in 0 .. Len(out) - 1 :
         out[k + 1] = C16_UnitSymbol(k % (IF kind = "Dumb" THEN 72 ELSE 99))
    /\ Len(stream) = CeilDiv(Len(out), 8)
    /\ ended =>
         /\ reps = (IF kind = "Dumb" THEN 20 ELSE 30)
         /\ Len(out) = (IF kind = "Dumb" THEN 1440 ELSE 2970)
    /\ op = "none"

\* a Dimmer command has been handed to transmit: 2970 symbols in 372 bytes
C16_Witness ==
  /\ kind = "Smart"
  /\ ended
  /\ Len(out) = 2970
  /\ Len(stream) = 372

\* C17: set_freq_mhz(f) fails without any bus transaction when
\* floor((f - 240) / 10) is outside 0..31 (f < 240 included); otherwise the
\* band select value is that band in the low 5 bits with HBSEL set exactly
\* when f >= 480, and it is the value of the first write of the call, to
\* FrequencyBandSelect, and of the register when the call succeeds.  For
\* f = 303.8 the band is 6, HBSEL is clear and the carrier value is 24320.
C17_BandSelect ==
  op = "set_freq" =>
    LET fi == freq \div 10
        b == (fi - 240) \div 10
        sel == b + (IF freq >= 4800 THEN 32 ELSE 0)
    IN /\ (fi < 240 \/ b < 0 \/ b > 31) =>
            /\ pc = "done"
            /\ result = "panic"
            /\ writes = << >>
            /\ ~touched
       /\ writes # << >> =>
            /\ b \in 0 .. 31
            /\ writes[1] = [reg |-> 117, val |-> sel]
            /\ sel % 32 = b
            /\ (BitAt(sel, 5) = 1) = (freq >= 4800)
       /\ \A i \in 2 .. Len(writes) : writes[i].reg # 117
       /\ (pc = "done" /\ result = "ok") => regs[117] = sel
       /\ freq = 3038 =>
            /\ b = 6
            /\ bandsel = 6
            /\ fcarrier = 24320
            /\ fcarrier <= 65535
            /\ pc # "fb_write" => writes # << >>

\* set_freq_mhz(303.8) has returned Ok on a device: band 6, carrier 0x5F00
C17_Witness ==
  /\ op = "set_freq"
  /\ pc = "done"
  /\ result = "ok"
  /\ backend = "chip"
  /\ freq = 3038
  /\ regs[117] = 6
  /\ regs[118] = 95
  /\ regs[119] = 0

\* C18: set_freq_mhz fails whenever the carrier value
\* c = (f / (20 if f >= 480 else 10) - (band + 24)) * 64000 is negative or
\* its whole part exceeds 65535, and when it succeeds CarrierFrequency1 and
\* CarrierFrequency0 hold the high and low byte of the whole part of c.
C18_CarrierRange ==
  (op = "set_freq" /\ pc = "done" /\ result = "ok") =>
    LET b == (freq \div 10 - 240) \div 10
        c == IF freq >= 4800
             THEN freq * 320 - (b + 24) * 64000
             ELSE freq * 640 - (b + 24) * 64000
    IN /\ c >= 0
       /\ c <= 65535
       /\ regs[118] * 256 + regs[119] \in {c - 1, c}

\* C19: when set_data_rate_hz(r) has returned Ok after nothing but
\* successful calls (on the fake backend a call that did not succeed ends
\* the process, so every earlier call succeeded), TXDRTSCALE of
\* ModulationModeControl1 is set exactly when r < 30000, and
\* TxDataRate1:TxDataRate0 hold floor(r * 2^e / 10^6) with e = 21 when
\* r < 30000 and e = 16 otherwise (6291 for r = 3000).
C19_DataRateEncoded ==
  (backend = "fake" /\ op = "set_rate" /\ pc = "done" /\ result = "ok") =>
    LET e == IF rate < 30000 THEN 21 ELSE 16
        v == (rate * 2 ^ (e - 6)) \div 15625
    IN /\ (BitAt(regs[112], 5) = 1) = (rate < 30000)
       /\ regs[110] * 256 + regs[111] = v
       /\ rate = 3000 => v = 6291

\* C20: a set_freq_mhz or set_data_rate_hz call that fails on a range
\* assertion has issued no register write.
C20_RejectedBeforeWrite ==
  /\ (op = "set_freq" /\ pc = "done"
        /\ (freq \div 10 < 240 \/ (freq \div 10 - 240) \div 10 > 31
              \/ fcarrier > 65535)) =>
       (result = "panic" /\ writes = << >>)
  /\ (op = "set_rate" /\ pc = "done" /\ txdr > 65535) =>
       (result = "panic" /\ writes = << >>)

\* the calls of the typed register layer
TypedOps == {"read", "write", "modify", "modify_verify", "write_validate"}

\* C21: when a bus transaction of read, write, modify, modify_verify or
\* write_validate fails (the read-back of a verified write included), no
\* further transaction of that call is issued, the failed one is not
\* repeated, and the call returns the I/O error to its caller.
C21_IoErrorPropagates ==
  op \in TypedOps =>
    /\ \A i \in 1 .. Len(bus) - 1 : bus[i].ok
    /\ (bus # << >> /\ ~bus[Len(bus)].ok) =>
         (pc = "done" /\ result = "ioerr")

\* C22: write_validate and modify_verify return Ok only from the read-back
\* and only if the register, read at the address just written, holds the
\* value written; the call has then issued the write and after it exactly
\* one read.  A read-back of another value ends in the assertion, which
\* ends the process, so that nothing is written after it.
C22_VerifiedWrite ==
  [][/\ (op \in {"write_validate", "modify_verify"} /\ pc # "done"
          /\ pc' = "done" /\ result' = "ok") =>
          /\ pc = "wv_verify"
          /\ regs[rreg] = val
          /\ Len(bus') = (IF op = "modify_verify" THEN 3 ELSE 2)
          /\ bus'[Len(bus') - 1] = [rw |-> "write", reg |-> rreg, ok |-> TRUE]
          /\ bus'[Len(bus')] = [rw |-> "read", reg |-> rreg, ok |-> TRUE]
          /\ writes' = <<[reg |-> rreg, val |-> val]>>
     /\ (pc = "wv_verify" /\ pc' # pc /\ regs[rreg] # val) =>
          (pc' = "done" /\ result' = "panic")
     /\ result = "panic" => (writes' = writes /\ bus' = bus)
    ]_vars

\* write_validate on a device that holds another byte than the one written
\* when it is read back: the call has ended in the assertion
C22_Witness ==
  /\ op = "write_validate"
  /\ pc = "done"
  /\ result = "panic"
  /\ Len(bus) = 2
  /\ bus[2].ok
  /\ regs[rreg] # val

\* C28: a read of a flag register whose bus transaction succeeded returns a
\* value: no byte the backend returns fails to decode.
C28_FlagDecodeTotal ==
  (op = "read" /\ pc = "done" /\ bus # << >> /\ bus[Len(bus)].ok) =>
    result = "ok"

\* C23: when transmit_large is about to write its initial burst, whatever
\* the enabled and pending sets were when it was called, the enabled set is
\* {PacketSent, TxFifoAlmostEmpty}, InterruptEnable1 holds these two bits,
\* InterruptEnable2 is 0, the pending set is empty, and FFCLRTX has been
\* written set and then clear.
C23_ResetBeforeFirstBurst ==
  (op = "transmit" /\ pc = "burst" /\ bursts = << >>) =>
    /\ enabled = BitOr(ENPKSENT, ENTXFFAEM)
    /\ regs[InterruptEnable1] = 36
    /\ regs[InterruptEnable2] = 0
    /\ pending = 0
    /\ Len(writes) = 4
    /\ writes[1].reg = OperatingFunctionControl2
    /\ Contains(writes[1].val, FFCLRTX)
    /\ writes[2].reg = OperatingFunctionControl2
    /\ ~Contains(writes[2].val, FFCLRTX)
    /\ ~Contains(regs[OperatingFunctionControl2], FFCLRTX)
    /\ writes[3] = [reg |-> InterruptEnable1, val |-> 36]
    /\ writes[4] = [reg |-> InterruptEnable2, val |-> 0]

\* a transmit called with an interrupt still pending from an earlier
\* transmit is about to write its initial burst
C23_Witness ==
  /\ op = "transmit"
  /\ pc = "burst"
  /\ bursts = << >>
  /\ pending0 # 0
  /\ enabled0 = 36
  /\ pending = 0

\* the interrupt sources of the model
C24_Sources == {IPKSENT, ITXFFAEM, IFFERR}

\* C24: a source in the pending set stays there unless handled() is called
\* with it (clear() calls it with what its poll returned) or set_enable()
\* is called without it; a poll puts every enabled source the status
\* register shows into the pending set and returns every pending enabled
\* source, also when the status register reads 0; handled() accesses no
\* register and leaves the enabled set alone.
C24_NoInterruptLost ==
  [][/\ \A b \in C24_Sources :
          (Contains(pending, b) /\ ~Contains(pending', b)) =>
            \/ pc = "idle" /\ op' = "handled" /\ Contains(target', b)
            \/ pc = "clear_poll" /\ Contains(pnd', b)
            \/ pc = "set_enable" /\ ~Contains(enArg, b)
     /\ (pc \in {"poll", "clear_poll", "wait_poll0", "wait_repoll"}
          /\ pc' # pc /\ result' # "ioerr") =>
          \A b \in C24_Sources :
            /\ (Contains(lastPoll'.hw, b) /\ Contains(enabled, b)) =>
                 Contains(lastPoll'.stored, b)
            /\ (Contains(pending, b) /\ Contains(enabled, b)) =>
                 (Contains(lastPoll'.stored, b) /\ Contains(pnd', b))
     /\ (pc = "idle" /\ op' = "handled") =>
          (regs' = regs /\ enabled' = enabled /\ ~touched' /\ bus' = << >>)
    ]_vars

\* a poll has returned TxFifoAlmostEmpty although the status register, read
\* and cleared by an earlier poll, showed nothing
C24_Witness ==
  /\ op = "poll"
  /\ pc = "done"
  /\ result = "ok"
  /\ lastPoll.hw = 0
  /\ lastPoll.ret = 32
  /\ pending = 32

\* C25: a wait returns Ok only if a poll made within one second of its
\* start reported the target bits: when the second had run out before the
\* last poll, the call fails.
C25_WaitDeadline ==
  (op = "wait" /\ pc = "done" /\ late) => result # "ok"

\* C26 as stated: a poll in dummy mode returns {TxFifoAlmostEmpty,
\* PacketSent} and accesses no register of the backend.
C26_DummyPollNoAccess ==
  (dummy /\ op = "poll" /\ pc = "done") =>
    /\ pnd = BitOr(ITXFFAEM, IPKSENT)
    /\ ~touched
    /\ bus = << >>

\* C26, amended: a poll in dummy mode returns Ok({TxFifoAlmostEmpty,
\* PacketSent}) whatever the enabled and pending sets are; it reads
\* InterruptStatus1 of FakeRegs once, which cannot fail, and writes nothing.
C26_DummyPollSynthesizes ==
  /\ (dummy /\ op = "poll" /\ pc = "done") =>
       /\ result = "ok"
       /\ pnd = BitOr(ITXFFAEM, IPKSENT)
       /\ bus = <<[rw |-> "read", reg |-> InterruptStatus1, ok |-> TRUE]>>
       /\ writes = << >>
       /\ backend = "fake"
  /\ (dummy /\ lastPoll # NoPoll) => lastPoll.ret = BitOr(ITXFFAEM, IPKSENT)

\* a dummy poll with nothing enabled and nothing pending has returned both
\* sources
C26_Witness ==
  /\ dummy
  /\ op = "poll"
  /\ pc = "done"
  /\ enabled = 0
  /\ pending = 0
  /\ pnd = 36

\* C27: when set_enable(bits) has returned Ok, InterruptEnable1 holds bits
\* and was read back, InterruptEnable2 holds 0 and was read back, the
\* enabled set is bits and the pending set has no source outside bits; the
\* pending set never has a source outside the enabled set.
C27_SetEnable ==
  /\ (op = "set_enable" /\ pc = "done" /\ result = "ok") =>
       /\ regs[InterruptEnable1] = enArg
       /\ regs[InterruptEnable2] = 0
       /\ enabled = enArg
       /\ BitAnd(pending, 255 - enArg) = 0
       /\ writes = <<[reg |-> InterruptEnable1, val |-> enArg],
                     [reg |-> InterruptEnable2, val |-> 0]>>
       /\ Len(bus) >= 3
       /\ bus[Len(bus)] = [rw |-> "read", reg |-> InterruptEnable2,
                           ok |-> TRUE]
       /\ bus[Len(bus) - 2] = [rw |-> "read", reg |-> InterruptEnable1,
                               ok |-> TRUE]
  /\ op = "set_enable" => BitAnd(pending, 255 - IntoStatus(enabled)) = 0

\* set_enable without TxFifoAlmostEmpty has returned Ok on a device where
\* TxFifoAlmostEmpty was pending when it was called
C27_Witness ==
  /\ op = "set_enable"
  /\ pc = "done"
  /\ result = "ok"
  /\ backend = "chip"
  /\ Contains(pending0, ITXFFAEM)
  /\ enArg = 128
  /\ pending = 0

====
